---------------------------- MODULE Spec2Model ----------------------------
(***************************************************************************)
(* Model of the NMEA sentence parser of gnss_analyzer                      *)
(* (core/src/NMEAParser.cpp, core/include/GNSSDataModel.hpp,               *)
(* core/include/NMEAException.hpp).                                        *)
(*                                                                         *)
(* Representation.                                                         *)
(*  - A QString is a sequence of one-character strings; a QStringList is   *)
(*    a sequence of such sequences.  C++ indices are 0-based, so           *)
(*    tokens[k] of the source is Tok(tokens, k) == tokens[k + 1] here.     *)
(*  - A double read by toDouble is held in fixed point, as an integer      *)
(*    number of 1/Scale units, Scale == 10^FracDigits.  The sentences of   *)
(*    the model carry at most FracDigits fraction digits, so the value is  *)
(*    exact and every comparison with the integral thresholds of the code  *)
(*    (0, 50, -500, 10000) has the outcome the double comparison has.      *)
(*    latitude and longitude are held in 1/(60 * Scale) degrees, which     *)
(*    makes degrees + minutes / 60 exact.  -qInf() is NegInf, a value      *)
(*    below every value a sentence of the model can denote.                *)
(*  - The characters of the sentences are digits, '.', '-', ',', '$', '*'  *)
(*    and letters that occur in no numeral; white space, exponents and     *)
(*    the numerals "inf" and "nan" are outside the modelled inputs.        *)
(*  - The date part of the timestamp (QDate::currentDate()) is the         *)
(*    environment's and is not represented; a timestamp is its validity    *)
(*    and its time of day.                                                 *)
(***************************************************************************)
EXTENDS Integers, Sequences, FiniteSets, TLC

(***************************************************************************)
(* Bounds of the model.                                                    *)
(***************************************************************************)
\* fraction digits kept by the fixed-point representation of a double
FracDigits == 4
\* the count of loop passes of parseGSV is recorded up to this number
MaxPasses == 3

RECURSIVE Pow10(_)
Pow10(n) == IF n = 0 THEN 1 ELSE 10 * Pow10(n - 1)

Scale == Pow10(FracDigits)

\* -qInf(): below every fixed-point value of the model
NegInf == -(2 * Pow10(9))

Min(a, b) == IF a < b THEN a ELSE b

(***************************************************************************)
(* QString operations used by the parser.                                  *)
(***************************************************************************)
Digits == <<"0", "1", "2", "3", "4", "5", "6", "7", "8", "9">>

IsDigit(c) == \E k \in 1..10 : Digits[k] = c

DigitVal(c) == (CHOOSE k \in 1..10 : Digits[k] = c) - 1

AllDigits(s) == \A k \in 1..Len(s) : IsDigit(s[k])

RECURSIVE DigitsValue(_)
\* value of a string of decimal digits (0 for the empty string)
DigitsValue(s) ==
    IF Len(s) = 0 THEN 0
    ELSE 10 * DigitsValue(SubSeq(s, 1, Len(s) - 1)) + DigitVal(s[Len(s)])

\* QString::mid(pos, n): at most n characters from 0-based position pos
Mid(s, pos, n) == SubSeq(s, pos + 1, Min(pos + n, Len(s)))

\* QString::mid(pos): the rest of the string from 0-based position pos
MidToEnd(s, pos) == SubSeq(s, pos + 1, Len(s))

\* QString::left(n)
Left(s, n) == SubSeq(s, 1, Min(n, Len(s)))

\* QString::startsWith
StartsWith(s, prefix) ==
    /\ Len(s) >= Len(prefix)
    /\ SubSeq(s, 1, Len(prefix)) = prefix

\* QString::toInt(&ok): optional sign, then one or more decimal digits and
\* nothing else; on failure ok is false and the value is 0.
ToInt(s) ==
    LET signed == Len(s) > 0 /\ s[1] \in {"+", "-"}
        body   == IF signed THEN Tail(s) ELSE s
        ok     == Len(body) > 0 /\ AllDigits(body)
        mag    == IF ok THEN DigitsValue(body) ELSE 0
    IN  [ok  |-> ok,
         val |-> IF signed /\ s[1] = "-" THEN -mag ELSE mag]

\* 0-based position of the first '.' of s, or Len(s) when there is none
DotPos(s) ==
    IF \E k \in 1..Len(s) : s[k] = "."
    THEN (CHOOSE k \in 1..Len(s) : s[k] = "." /\ \A j \in 1..(k - 1) : s[j] # ".") - 1
    ELSE Len(s)

\* QString::toDouble(&ok): optional sign, digits, optional '.' and digits,
\* at least one digit in all; on failure ok is false and the value is 0.0.
\* The value is in 1/Scale units.
ToDouble(s) ==
    LET signed == Len(s) > 0 /\ s[1] \in {"+", "-"}
        body   == IF signed THEN Tail(s) ELSE s
        dot    == DotPos(body)
        ip     == Left(body, dot)
        fp     == MidToEnd(body, dot + 1)
        ok     == /\ AllDigits(ip)
                  /\ AllDigits(fp)
                  /\ Len(ip) + Len(fp) > 0
        fpk    == Left(fp, FracDigits)
        mag    == IF ok
                  THEN DigitsValue(ip) * Scale
                       + DigitsValue(fpk) * Pow10(FracDigits - Len(fpk))
                  ELSE 0
    IN  [ok  |-> ok,
         val |-> IF signed /\ s[1] = "-" THEN -mag ELSE mag]

RECURSIVE SplitFrom(_, _, _, _)
SplitFrom(s, k, cur, acc) ==
    IF k > Len(s) THEN Append(acc, cur)
    ELSE IF s[k] = "," THEN SplitFrom(s, k + 1, <<>>, Append(acc, cur))
    ELSE SplitFrom(s, k + 1, Append(cur, s[k]), acc)

\* QString::split(","): the fields between the commas, empty ones kept
Split(s) == SplitFrom(s, 1, <<>>, <<>>)

\* tokens[k] of the source (0-based)
Tok(tokens, k) == tokens[k + 1]


(***************************************************************************)
(* Error taxonomy (NMEAException.hpp).  An exception is its class and the  *)
(* message given to its constructor; NoError is "nothing was thrown".      *)
(***************************************************************************)
NoError == [kind |-> "none", what |-> ""]

ParsingError(msg) == [kind |-> "ParsingError", what |-> msg]

InvalidDataError(msg) == [kind |-> "InvalidDataError", what |-> msg]

Raised(e) == e.kind # "none"

(***************************************************************************)
(* Data model (GNSSDataModel.hpp).                                         *)
(***************************************************************************)
\* QMap<int, SATInfo>: a function from the ids it holds
EmptyMap == << >>

\* a default-constructed QDateTime is invalid
NullTimestamp == [valid |-> FALSE, hour |-> 0, minute |-> 0, second |-> 0]

\* GNSSData with its default member initialisers
InitialGNSSData ==
    [satellites |-> 0,
     latitude   |-> 0,
     longitude  |-> 0,
     altitude   |-> 0,
     snrAvg     |-> 0,
     hdop       |-> 0,
     vdop       |-> 0,
     satMap     |-> EmptyMap,
     fixType    |-> "No fix",
     timestamp  |-> NullTimestamp]

\* conversion of an int to the u_int8_t member GNSSData::satellites
ToUInt8(n) == n % 256

\* QTimeIsValid with the hour left unchecked
QTimeIsValid_NoHourCheck(h, m, s) ==
    /\ m >= 0 /\ m < 60
    /\ s >= 0 /\ s < 60

\* QTime(h, m, s).isValid()
QTimeIsValid(h, m, s) ==
    /\ h >= 0 /\ h < 24
    /\ m >= 0 /\ m < 60
    /\ s >= 0 /\ s < 60

\* convertToDecimalDegrees returning -qInf() for an empty value or direction
\* (what tests/test_nmea_gga.cpp's row "no_fix" expects of the position)
\* instead of throwing
convertToDecimalDegrees_EmptyIsInf(value, direction) ==
    IF Len(value) = 0 \/ Len(direction) = 0
    THEN [err |-> NoError, val |-> NegInf]
    ELSE
    LET degDigits  == IF direction = <<"N">> \/ direction = <<"S">> THEN 2 ELSE 3
        degreePart == ToInt(Left(value, degDigits))
        minutePart == ToDouble(MidToEnd(value, degDigits))
        decimalDegrees == degreePart.val * 60 * Scale + minutePart.val
    IN  IF Len(value) < degDigits \/ ~degreePart.ok \/ ~minutePart.ok
        THEN [err |-> InvalidDataError("InvalidData: Conversion failed"), val |-> 0]
        ELSE [err |-> NoError,
              val |-> IF direction = <<"S">> \/ direction = <<"W">>
                      THEN -decimalDegrees ELSE decimalDegrees]

(***************************************************************************)
(* convertToDecimalDegrees: the result is [err, val]; val, in              *)
(* 1/(60 * Scale) degrees, is meaningful when nothing was raised.          *)
(***************************************************************************)
convertToDecimalDegrees(value, direction) ==
    IF Len(value) = 0 \/ Len(direction) = 0
    THEN [err |-> InvalidDataError("InvalidData: Empty latitude/longitude or direction"),
          val |-> 0]
    ELSE
    LET degDigits  == IF direction = <<"N">> \/ direction = <<"S">> THEN 2 ELSE 3
        degreePart == ToInt(Left(value, degDigits))
        minutePart == ToDouble(MidToEnd(value, degDigits))
        decimalDegrees == degreePart.val * 60 * Scale + minutePart.val
    IN  IF Len(value) < degDigits
        THEN [err |-> InvalidDataError("InvalidData: String too short for degrees"),
              val |-> 0]
        ELSE IF ~degreePart.ok \/ ~minutePart.ok
        THEN [err |-> InvalidDataError("InvalidData: Conversion failed"), val |-> 0]
        ELSE [err |-> NoError,
              val |-> IF direction = <<"S">> \/ direction = <<"W">>
                      THEN -decimalDegrees ELSE decimalDegrees]

(***************************************************************************)
(* parseGGA, one operator per step of the function.  A step takes and      *)
(* returns r == [data, err]: the record as mutated so far and the          *)
(* exception in flight; once an exception is raised the later steps are    *)
(* skipped and the record keeps what was assigned before the throw.        *)
(***************************************************************************)
\* fewer than 10 fields
GGATooShort(tokens) == Len(tokens) < 10

GGATime(tokens, r) ==
    IF Raised(r.err) THEN r
    ELSE
    LET timeStr == Tok(tokens, 1)
        hour    == ToInt(Mid(timeStr, 0, 2)).val
        minute  == ToInt(Mid(timeStr, 2, 2)).val
        second  == ToInt(Mid(timeStr, 4, 2)).val
    IN  IF Len(timeStr) < 6
        THEN [r EXCEPT !.err = InvalidDataError("Invalid UTC time in GGA frame")]
        ELSE IF QTimeIsValid(hour, minute, second)
        THEN [r EXCEPT !.data.timestamp =
                  [valid |-> TRUE, hour |-> hour, minute |-> minute, second |-> second]]
        ELSE r

GGALatitude(tokens, r) ==
    IF Raised(r.err) THEN r
    ELSE
    LET c == convertToDecimalDegrees(Tok(tokens, 2), Tok(tokens, 3))
    IN  IF Raised(c.err) THEN [r EXCEPT !.err = c.err]
        ELSE [r EXCEPT !.data.latitude = c.val]

GGALongitude(tokens, r) ==
    IF Raised(r.err) THEN r
    ELSE
    LET c == convertToDecimalDegrees(Tok(tokens, 4), Tok(tokens, 5))
    IN  IF Raised(c.err) THEN [r EXCEPT !.err = c.err]
        ELSE IF c.val = NegInf
        THEN [r EXCEPT !.data.longitude = c.val,
                       !.err = InvalidDataError("Longitude conversion failed")]
        ELSE [r EXCEPT !.data.longitude = c.val]

\* FixTypeLabel with the labels of codes 1 and 2 exchanged and code 3 taken
\* for code 4
FixTypeLabel_Shifted(fixQuality) ==
    CASE fixQuality = 0 -> [ok |-> TRUE, label |-> "No Fix"]
      [] fixQuality = 1 -> [ok |-> TRUE, label |-> "DGPS Fix"]
      [] fixQuality = 2 -> [ok |-> TRUE, label |-> "GPS Fix"]
      [] fixQuality = 3 -> [ok |-> TRUE, label |-> "RTK Fix"]
      [] OTHER          -> [ok |-> FALSE, label |-> ""]

\* the switch on the fix quality code: [ok, label]
FixTypeLabel(fixQuality) ==
    CASE fixQuality = 0 -> [ok |-> TRUE, label |-> "No Fix"]
      [] fixQuality = 1 -> [ok |-> TRUE, label |-> "GPS Fix"]
      [] fixQuality = 2 -> [ok |-> TRUE, label |-> "DGPS Fix"]
      [] fixQuality = 4 -> [ok |-> TRUE, label |-> "RTK Fix"]
      [] OTHER          -> [ok |-> FALSE, label |-> ""]

GGAFixType(tokens, r) ==
    IF Raised(r.err) THEN r
    ELSE
    LET fixQuality == ToInt(Tok(tokens, 6)).val
        m          == FixTypeLabel(fixQuality)
    IN  IF m.ok THEN [r EXCEPT !.data.fixType = m.label]
        ELSE [r EXCEPT !.err = InvalidDataError("Unknown fix quality code")]

GGASatellites(tokens, r) ==
    IF Raised(r.err) THEN r
    ELSE
    LET satellites == ToUInt8(ToInt(Tok(tokens, 7)).val)
    IN  IF satellites < 0 \/ satellites > 50
        THEN [r EXCEPT !.data.satellites = satellites,
                       !.err = InvalidDataError("Number of satellites out of range")]
        ELSE [r EXCEPT !.data.satellites = satellites]

GGAHdop(tokens, r) ==
    IF Raised(r.err) THEN r
    ELSE
    LET hdop == ToDouble(Tok(tokens, 8)).val
    IN  IF hdop <= 0 \/ hdop > 50 * Scale
        THEN [r EXCEPT !.data.hdop = hdop,
                       !.err = InvalidDataError("HDOP value out of range")]
        ELSE [r EXCEPT !.data.hdop = hdop]

GGAAltitude(tokens, r) ==
    IF Raised(r.err) THEN r
    ELSE
    LET altitude == ToDouble(Tok(tokens, 9)).val
    IN  IF altitude < -500 * Scale \/ altitude > 10000 * Scale
        THEN [r EXCEPT !.data.altitude = altitude,
                       !.err = InvalidDataError("Altitude out of realistic bounds")]
        ELSE [r EXCEPT !.data.altitude = altitude]

\* parseGGA(tokens, data): [data, err], the record after the call and the
\* exception that leaves it (the catch block logs and rethrows)
parseGGA(tokens, data) ==
    IF GGATooShort(tokens)
    THEN [data |-> data,
          err  |-> ParsingError("GGA frame too short: expected >=10 fields")]
    ELSE GGAAltitude(tokens,
         GGAHdop(tokens,
         GGASatellites(tokens,
         GGAFixType(tokens,
         GGALongitude(tokens,
         GGALatitude(tokens,
         GGATime(tokens, [data |-> data, err |-> NoError])))))))

(***************************************************************************)
(* parseGSV.  The session state is the file-scope pair gsvTempSatellites,  *)
(* expectedGSVParts.  The function is modelled in the pieces of its        *)
(* control flow, because its loop need not end: the part before the loop   *)
(* (GSVBegin), the loop condition, one pass of the loop body, and the      *)
(* loop's iteration expression.                                            *)
(***************************************************************************)
\* GSVTooShort with the bound one too small
GSVTooShort_OffByOne(tokens) == Len(tokens) < 3

\* fewer than 4 fields
GSVTooShort(tokens) == Len(tokens) < 4

\* gsvTempSatellites[id] = info
Upsert(sats, id, info) ==
    [k \in (DOMAIN sats) \cup {id} |-> IF k = id THEN info ELSE sats[k]]

\* the statements between the length check and the loop, on the session
\* state s == [sats, expected]
GSVBegin(tokens, s) ==
    LET totalMsgs == ToInt(Tok(tokens, 1)).val
        msgNum    == ToInt(Tok(tokens, 2)).val
    IN  IF msgNum = 1
        THEN [sats |-> EmptyMap, expected |-> totalMsgs]
        ELSE s

\* the loop condition  i+3 < tokens.size()
GSVLoopCond(tokens, i) == i + 3 < Len(tokens)

\* one pass of the loop body at index i: the accumulation map after it
GSVLoopBody(tokens, i, sats) ==
    LET id      == ToInt(Tok(tokens, i))
        elev    == ToDouble(Tok(tokens, i + 1))
        azimuth == ToDouble(Tok(tokens, i + 2))
        snr     == ToDouble(Tok(tokens, i + 3))
    IN  IF ~id.ok \/ id.val <= 0
        THEN sats
        ELSE Upsert(sats, id.val,
                    [elevation |-> IF elev.ok THEN elev.val ELSE NegInf,
                     azimuth   |-> IF azimuth.ok THEN azimuth.val ELSE NegInf,
                     snr       |-> IF snr.ok THEN snr.val ELSE NegInf])

\* the iteration expression of the loop is  i+4 , whose value is discarded:
\* i is the same after it.  Every pass calls QString and QMap functions the
\* compiler cannot see through, so a build cannot drop the loop: with 8 or
\* more tokens it runs for ever.
GSVLoopNext(i) == i

(***************************************************************************)
(* DataType and the dispatch of parseLine.                                 *)
(***************************************************************************)
PrefixGGA == <<"$", "G", "P", "G", "G", "A">>

PrefixGSV == <<"$", "G", "P", "G", "S", "V">>

\* DataType taking every "$GP" sentence that is not satellites-in-view for
\* fix data
DataType_AnyGP(line) ==
    IF StartsWith(line, PrefixGSV) THEN "GSV"
    ELSE IF StartsWith(line, <<"$", "G", "P">>) THEN "GGA"
    ELSE "Unknown"

DataType(line) ==
    IF StartsWith(line, PrefixGGA) THEN "GGA"
    ELSE IF StartsWith(line, PrefixGSV) THEN "GSV"
    ELSE "Unknown"

(***************************************************************************)
(* The lines given to parseLine: the fix sentences of                      *)
(* tests/test_nmea_gga.cpp and a satellites-in-view sentence, as they are, *)
(* with one field replaced, or cut after some of their fields; and         *)
(* sentences of other kinds.                                               *)
(***************************************************************************)
\* the fields of "$GPGGA,123519,4807.038,N,11131.000,E,1,08,0.9,545.4,M,,*47"
GGABasicFix ==
    <<<<"$", "G", "P", "G", "G", "A">>,
      <<"1", "2", "3", "5", "1", "9">>,
      <<"4", "8", "0", "7", ".", "0", "3", "8">>,
      <<"N">>,
      <<"1", "1", "1", "3", "1", ".", "0", "0", "0">>,
      <<"E">>,
      <<"1">>,
      <<"0", "8">>,
      <<"0", ".", "9">>,
      <<"5", "4", "5", ".", "4">>,
      <<"M">>,
      <<>>,
      <<"*", "4", "7">>>>

\* the fields of "$GPGGA,102030,5123.456,N,00012.345,E,1,10,1.2,120.0,M,,*5C"
GGADifferentPos ==
    <<<<"$", "G", "P", "G", "G", "A">>,
      <<"1", "0", "2", "0", "3", "0">>,
      <<"5", "1", "2", "3", ".", "4", "5", "6">>,
      <<"N">>,
      <<"0", "0", "0", "1", "2", ".", "3", "4", "5">>,
      <<"E">>,
      <<"1">>,
      <<"1", "0">>,
      <<"1", ".", "2">>,
      <<"1", "2", "0", ".", "0">>,
      <<"M">>,
      <<>>,
      <<"*", "5", "C">>>>

\* the fields of "$GPGGA,094500,,,,,0,00,99.9,,,,,,*48"
GGANoFix ==
    <<<<"$", "G", "P", "G", "G", "A">>,
      <<"0", "9", "4", "5", "0", "0">>,
      <<>>,
      <<>>,
      <<>>,
      <<>>,
      <<"0">>,
      <<"0", "0">>,
      <<"9", "9", ".", "9">>,
      <<>>,
      <<>>,
      <<>>,
      <<>>,
      <<>>,
      <<"*", "4", "8">>>>

\* the fields of "$GPGSV,3,1,12,02,65,290,42,04,40,150,38*7A": the first of
\* three messages, with two satellite blocks
GSVFirst ==
    <<<<"$", "G", "P", "G", "S", "V">>,
      <<"3">>,
      <<"1">>,
      <<"1", "2">>,
      <<"0", "2">>,
      <<"6", "5">>,
      <<"2", "9", "0">>,
      <<"4", "2">>,
      <<"0", "4">>,
      <<"4", "0">>,
      <<"1", "5", "0">>,
      <<"3", "8", "*", "7", "A">>>>

\* sentences of other kinds
OtherSentences ==
    {<<<<"$", "G", "P", "X", "X", "X">>, <<"1">>, <<"2">>>>,
     <<<<"$", "G", "P", "R", "M", "C">>, <<"1", "3", "0", "5", "5", "9", ".", "0", "0">>, <<"A">>>>,
     <<<<>>>>}

\* <<k, t>>: field k of a fix sentence replaced by t
GGAAlternatives ==
    {<<1, <<"2", "5", "0", "0", "0", "0">>>>,
     <<1, <<"1", "2", "6", "1", "0", "0">>>>,
     <<1, <<"1", "2", "3", "5">>>>,
     <<1, <<>>>>,
     <<2, <<>>>>,
     <<3, <<"S">>>>,
     <<3, <<>>>>,
     <<4, <<>>>>,
     <<5, <<"W">>>>,
     <<6, <<"0">>>>,
     <<6, <<"2">>>>,
     <<6, <<"3">>>>,
     <<6, <<"4">>>>,
     <<6, <<"5">>>>,
     <<6, <<"-", "1">>>>,
     <<6, <<>>>>,
     <<6, <<"x">>>>,
     <<7, <<"0">>>>,
     <<7, <<"5", "0">>>>,
     <<7, <<"5", "1">>>>,
     <<7, <<"2", "5", "6">>>>,
     <<7, <<"3", "0", "0">>>>,
     <<7, <<"-", "1">>>>,
     <<7, <<>>>>,
     <<7, <<"x">>>>,
     <<8, <<"0">>>>,
     <<8, <<"5", "0", ".", "0">>>>,
     <<8, <<"5", "0", ".", "0", "0", "0", "1">>>>,
     <<8, <<"-", "1">>>>,
     <<8, <<>>>>,
     <<9, <<"-", "5", "0", "0">>>>,
     <<9, <<"-", "5", "0", "0", ".", "1">>>>,
     <<9, <<"1", "0", "0", "0", "0">>>>,
     <<9, <<"1", "0", "0", "0", "0", ".", "1">>>>,
     <<9, <<>>>>,
     <<9, <<"x">>>>}

\* <<k, t>>: field k of a satellites-in-view sentence replaced by t
GSVAlternatives ==
    {<<1, <<"2">>>>,
     <<2, <<"2">>>>,
     <<2, <<"x">>>>,
     <<4, <<"x">>>>,
     <<4, <<"0">>>>,
     <<4, <<"-", "3">>>>,
     <<4, <<>>>>,
     <<5, <<>>>>,
     <<6, <<"x">>>>,
     <<7, <<"4", "*", "7", "A">>>>,
     <<8, <<"0", "2">>>>,
     <<8, <<"x">>>>}

RECURSIVE Join(_)
\* the sentence whose comma-separated fields are the (non-empty) list fields
Join(fields) ==
    IF Len(fields) = 1 THEN fields[1]
    ELSE Join(SubSeq(fields, 1, Len(fields) - 1)) \o <<",">> \o fields[Len(fields)]

Replaced(fields, alts) ==
    {[fields EXCEPT ![a[1] + 1] = a[2]] : a \in alts}

Cut(fields, lengths) ==
    {SubSeq(fields, 1, n) : n \in lengths}

GGASentences ==
    {GGABasicFix, GGADifferentPos, GGANoFix}
    \cup Replaced(GGABasicFix, GGAAlternatives)
    \cup Replaced(GGANoFix, GGAAlternatives)
    \cup Cut(GGABasicFix, {1, 9, 10}) \cup Cut(GGANoFix, {9, 10})

GSVSentences ==
    {GSVFirst}
    \cup Replaced(GSVFirst, GSVAlternatives)
    \cup Cut(GSVFirst, {1, 3, 4, 7, 8, 11})
    \cup Cut([GSVFirst EXCEPT ![2] = <<"2">>], {3, 4, 7, 8})

Lines == {Join(f) : f \in GGASentences \cup GSVSentences \cup OtherSentences}

(***************************************************************************)
(* The state machine.  A caller owns one GNSSData record and gives         *)
(* parseLine one line after the other, MaxLines lines at most.  A call     *)
(* runs to its end in one step, except inside the loop of parseGSV, where  *)
(* each pass is a step.                                                    *)
(***************************************************************************)
\* lines the caller gives to parseLine
MaxLines == 3

VARIABLES
    pc,                 \* "idle": between calls; "gsv_loop": in the loop of
                        \* parseGSV; "returned": parseLine has returned or thrown
    line,               \* the argument of the current or last call
    data,               \* the caller's GNSSData record
    gsvTempSatellites,  \* file-scope accumulation map
    expectedGSVParts,   \* file-scope expected message count
    err,                \* the exception that left the last call
    tokens,             \* the fields parseLine split the line into
    i,                  \* parseGSV: the loop index
    passes,             \* passes of the loop body made by the current call
    nlines              \* calls made so far

vars == <<pc, line, data, gsvTempSatellites, expectedGSVParts, err, tokens, i,
          passes, nlines>>

Init ==
    /\ pc = "idle"
    /\ line = <<>>
    /\ data = InitialGNSSData
    /\ gsvTempSatellites = EmptyMap
    /\ expectedGSVParts = 0
    /\ err = NoError
    /\ tokens = <<>>
    /\ i = 0
    /\ passes = 0
    /\ nlines = 0

\* parseLine(l, data) for a fix sentence: split and parseGGA
ParseLineGGA(l) ==
    /\ pc = "idle" /\ nlines < MaxLines
    /\ DataType(l) = "GGA"
    /\ LET r == parseGGA(Split(l), data)
       IN  /\ data' = r.data
           /\ err' = r.err
    /\ line' = l
    /\ tokens' = Split(l)
    /\ pc' = "returned"
    /\ nlines' = nlines + 1
    /\ UNCHANGED <<gsvTempSatellites, expectedGSVParts, i, passes>>

\* parseLine(l, data) for a satellites-in-view sentence: split and parseGSV
\* up to its loop
ParseLineGSV(l) ==
    /\ pc = "idle" /\ nlines < MaxLines
    /\ DataType(l) = "GSV"
    /\ line' = l
    /\ nlines' = nlines + 1
    /\ tokens' = Split(l)
    /\ IF GSVTooShort(Split(l))
       THEN /\ err' = ParsingError("GSV frame too short: expected >=4 fields")
            /\ pc' = "returned"
            /\ UNCHANGED <<gsvTempSatellites, expectedGSVParts, i>>
       ELSE LET s == GSVBegin(Split(l), [sats     |-> gsvTempSatellites,
                                         expected |-> expectedGSVParts])
            IN  /\ gsvTempSatellites' = s.sats
                /\ expectedGSVParts' = s.expected
                /\ i' = 4
                /\ pc' = "gsv_loop"
                /\ err' = NoError
    /\ UNCHANGED <<data, passes>>

\* one pass of the loop of parseGSV
GSVPass ==
    /\ pc = "gsv_loop"
    /\ GSVLoopCond(tokens, i)
    /\ gsvTempSatellites' = GSVLoopBody(tokens, i, gsvTempSatellites)
    /\ i' = GSVLoopNext(i)
    /\ passes' = Min(passes + 1, MaxPasses)
    /\ UNCHANGED <<pc, line, data, expectedGSVParts, err, tokens, nlines>>

\* the loop condition is false: parseGSV and parseLine return
GSVReturn ==
    /\ pc = "gsv_loop"
    /\ ~GSVLoopCond(tokens, i)
    /\ pc' = "returned"
    /\ UNCHANGED <<line, data, gsvTempSatellites, expectedGSVParts, err, tokens,
                   i, passes, nlines>>

\* parseLine(l, data) for any other line: nothing
ParseLineUnknown(l) ==
    /\ pc = "idle" /\ nlines < MaxLines
    /\ DataType(l) = "Unknown"
    /\ line' = l
    /\ pc' = "returned"
    /\ nlines' = nlines + 1
    /\ err' = NoError
    /\ UNCHANGED <<data, gsvTempSatellites, expectedGSVParts, tokens, i, passes>>

\* the caller has seen the outcome and goes on to its next line
Resume ==
    /\ pc = "returned"
    /\ pc' = "idle"
    /\ line' = <<>>
    /\ err' = NoError
    /\ tokens' = <<>>
    /\ i' = 0
    /\ passes' = 0
    /\ UNCHANGED <<data, gsvTempSatellites, expectedGSVParts, nlines>>

Next ==
    \/ \E l \in Lines : ParseLineGGA(l)
    \/ \E l \in Lines : ParseLineGSV(l)
    \/ \E l \in Lines : ParseLineUnknown(l)
    \/ GSVPass
    \/ GSVReturn
    \/ Resume

Spec == Init /\ [][Next]_vars

(***************************************************************************)
(* Vocabulary of the properties.                                           *)
(***************************************************************************)
\* the fields of the line of the current or last call of a parser
Fields == tokens

Field(k) == Tok(Fields, k)

\* parseLine has returned or thrown on a fix sentence of at least 10 fields
ReturnedGGA ==
    /\ pc = "returned"
    /\ DataType(line) = "GGA"
    /\ Len(Fields) >= 10

\* the line starts with "$GP" and the three letters of sentence kind k
HasPrefix(l, k) ==
    /\ Len(l) >= 6
    /\ SubSeq(l, 1, 3) = <<"$", "G", "P">>
    /\ \/ k = "GGA" /\ SubSeq(l, 4, 6) = <<"G", "G", "A">>
       \/ k = "GSV" /\ SubSeq(l, 4, 6) = <<"G", "S", "V">>

\* a step from before a call of parseLine to after it
CallStep == pc = "idle" /\ pc' # "idle"

MsgTime == "Invalid UTC time in GGA frame"

MsgEmpty == "InvalidData: Empty latitude/longitude or direction"

MsgFix == "Unknown fix quality code"

MsgSatellites == "Number of satellites out of range"

MsgHdop == "HDOP value out of range"

MsgAltitude == "Altitude out of realistic bounds"

\* the messages of the steps of parseGGA before the fix quality step
BeforeFix ==
    {"GGA frame too short: expected >=10 fields", MsgTime, MsgEmpty,
     "InvalidData: String too short for degrees",
     "InvalidData: Conversion failed", "Longitude conversion failed"}

\* complete 4-field satellite blocks of a satellites-in-view sentence
NTuples(t) == IF Len(t) < 4 THEN 0 ELSE (Len(t) - 4) \div 4

\* the token indices at which they start
TupleIndices(t) == {4 + 4 * k : k \in 0..(NTuples(t) - 1)}

ValidId(t, k) == ToInt(Tok(t, k)).ok /\ ToInt(Tok(t, k)).val > 0

\* the call of parseGSV under way, or just over, has had at least as many
\* passes of its loop as its sentence has complete blocks
GSVAllPassesMade ==
    /\ pc \in {"gsv_loop", "returned"}
    /\ DataType(line) = "GSV"
    /\ Len(tokens) >= 4
    /\ passes >= NTuples(tokens)

(***************************************************************************)
(* C1.  parseGSV terminates: its loop visits the satellite blocks at token *)
(* indices 4, 8, 12, ..., advancing the index by 4 at each pass, makes     *)
(* one pass per complete block and stops when fewer than 4 tokens remain.  *)
(* As a property of steps: a pass that stays in the loop has moved the     *)
(* index on by 4, and the passes made never outnumber the complete blocks. *)
(***************************************************************************)
C1_LoopAdvancesByFour ==
    [][(pc = "gsv_loop" /\ pc' = "gsv_loop")
         => (i' = i + 4 /\ passes' <= NTuples(tokens'))]_vars

(***************************************************************************)
(* C2.  After parseGSV calls the accumulation map holds exactly the        *)
(* valid-id satellites of the sentences from the latest message-index-1    *)
(* sentence on.  For the sentence that starts a sequence: once its call    *)
(* has had a pass per complete block, the ids in the map are exactly the   *)
(* valid ids of its blocks (two entries for two valid blocks).             *)
(***************************************************************************)
C2_MapHoldsSequence ==
    (GSVAllPassesMade /\ ToInt(Tok(tokens, 2)).val = 1)
        => DOMAIN gsvTempSatellites
             = {ToInt(Tok(tokens, k)).val : k \in {j \in TupleIndices(tokens) : ValidId(tokens, j)}}

(***************************************************************************)
(* C3.  A block of a satellites-in-view sentence whose id does not parse   *)
(* or is <= 0 is dropped without an error, and every block with a valid id *)
(* is in the accumulation map once the loop has had a pass per block, an   *)
(* unparseable elevation, azimuth or snr being stored as -infinity.        *)
(***************************************************************************)
C3_InvalidIdDropsOnlyItsBlock ==
    (GSVAllPassesMade /\ \E k \in TupleIndices(tokens) : ~ValidId(tokens, k))
        => /\ err = NoError
           /\ \A k \in TupleIndices(tokens) :
                ValidId(tokens, k)
                  => /\ ToInt(Tok(tokens, k)).val \in DOMAIN gsvTempSatellites
                     /\ (\A j \in TupleIndices(tokens) :
                            (j > k => Tok(tokens, j) # Tok(tokens, k)))
                        => gsvTempSatellites[ToInt(Tok(tokens, k)).val]
                             = [elevation |-> IF ToDouble(Tok(tokens, k + 1)).ok
                                              THEN ToDouble(Tok(tokens, k + 1)).val
                                              ELSE NegInf,
                                azimuth   |-> IF ToDouble(Tok(tokens, k + 2)).ok
                                              THEN ToDouble(Tok(tokens, k + 2)).val
                                              ELSE NegInf,
                                snr       |-> IF ToDouble(Tok(tokens, k + 3)).ok
                                              THEN ToDouble(Tok(tokens, k + 3)).val
                                              ELSE NegInf]

(***************************************************************************)
(* C4.  A sentence with too few fields raises ParsingError and changes     *)
(* nothing: a fix sentence of fewer than 10 fields leaves the fix record   *)
(* as it was, a satellites-in-view sentence of fewer than 4 fields leaves  *)
(* the accumulation map and the expected message count as they were,       *)
(* whatever its message index.                                             *)
(***************************************************************************)
C4_TooShortRaisesAndChangesNothing ==
    [][CallStep =>
         /\ (DataType(line') = "GGA" /\ Len(tokens') < 10)
              => /\ pc' = "returned"
                 /\ err'.kind = "ParsingError"
                 /\ data' = data
         /\ (DataType(line') = "GSV" /\ Len(tokens') < 4)
              => /\ pc' = "returned"
                 /\ err'.kind = "ParsingError"
                 /\ gsvTempSatellites' = gsvTempSatellites
                 /\ expectedGSVParts' = expectedGSVParts
                 /\ data' = data]_vars

\* a fix sentence of 9 fields was rejected against a record that earlier
\* sentences had filled
C4_Witness ==
    /\ pc = "returned"
    /\ DataType(line) = "GGA"
    /\ Len(Fields) = 9
    /\ err.kind = "ParsingError"
    /\ data.fixType = "GPS Fix"
    /\ data.satellites = 8
    /\ expectedGSVParts = 3

(***************************************************************************)
(* C5.  Satellite count, HDOP and altitude are accepted exactly inside     *)
(* their ranges: an integer satellite count outside [0,50] is rejected     *)
(* with InvalidDataError and one inside is accepted and stored; HDOP <= 0  *)
(* or > 50 is rejected and HDOP in (0,50] accepted; altitude < -500 or     *)
(* > 10000 is rejected and altitude in [-500,10000] accepted.  Each part   *)
(* speaks of the sentences whose earlier steps raised nothing.             *)
(***************************************************************************)
C5_RangesEnforced ==
    (ReturnedGGA /\ err.what \notin BeforeFix \cup {MsgFix})
      => LET n == ToInt(Field(7))
             h == ToDouble(Field(8))
             a == ToDouble(Field(9))
         IN  /\ n.ok =>
                  IF n.val < 0 \/ n.val > 50
                  THEN err = InvalidDataError(MsgSatellites)
                  ELSE err.what # MsgSatellites /\ data.satellites = n.val
             /\ (h.ok /\ err.what # MsgSatellites) =>
                  IF h.val <= 0 \/ h.val > 50 * Scale
                  THEN err = InvalidDataError(MsgHdop)
                  ELSE err.what # MsgHdop /\ data.hdop = h.val
             /\ (a.ok /\ err.what \notin {MsgSatellites, MsgHdop}) =>
                  IF a.val < -500 * Scale \/ a.val > 10000 * Scale
                  THEN err = InvalidDataError(MsgAltitude)
                  ELSE err = NoError /\ data.altitude = a.val

(***************************************************************************)
(* C6.  The fix-type label follows the table: a fix quality code 0, 1, 2   *)
(* or 4 sets the label "No Fix", "GPS Fix", "DGPS Fix" or "RTK Fix", and   *)
(* any other integer code raises InvalidDataError.  It speaks of the       *)
(* sentences whose earlier steps raised nothing.                           *)
(***************************************************************************)
C6_FixTypeTable ==
    (ReturnedGGA /\ err.what \notin BeforeFix /\ ToInt(Field(6)).ok)
      => LET code == ToInt(Field(6)).val
         IN  /\ code = 0 => data.fixType = "No Fix"
             /\ code = 1 => data.fixType = "GPS Fix"
             /\ code = 2 => data.fixType = "DGPS Fix"
             /\ code = 4 => data.fixType = "RTK Fix"
             /\ code \in {0, 1, 2, 4} => err.what # MsgFix
             /\ code \notin {0, 1, 2, 4} => err = InvalidDataError(MsgFix)

\* fix quality 4 was read into a record that held another label
C6_Witness ==
    /\ ReturnedGGA
    /\ Field(6) = <<"4">>
    /\ data.fixType = "RTK Fix"
    /\ err = NoError
    /\ nlines >= 2

(***************************************************************************)
(* C7.  A fix quality, satellite count, HDOP or altitude field that does   *)
(* not parse as a number raises InvalidDataError: a fix sentence with      *)
(* such a field never returns without one.                                 *)
(***************************************************************************)
C7_UnparseableFieldRaises ==
    (/\ ReturnedGGA
     /\ \/ ~ToInt(Field(6)).ok
        \/ ~ToInt(Field(7)).ok
        \/ ~ToDouble(Field(8)).ok
        \/ ~ToDouble(Field(9)).ok)
      => err.kind = "InvalidDataError"

(***************************************************************************)
(* C8.  parseLine changes the caller's fix record only for a fix sentence: *)
(* for a line of unknown kind it raises nothing and leaves the fix record, *)
(* the accumulation map and the expected message count as they were; for a *)
(* satellites-in-view line it leaves every field of the fix record, its    *)
(* satellite mapping included, as it was, in every step of the call.       *)
(***************************************************************************)
C8_OnlyFixSentencesTouchTheRecord ==
    [][/\ data' # data => (CallStep /\ HasPrefix(line', "GGA"))
       /\ (CallStep /\ ~HasPrefix(line', "GGA") /\ ~HasPrefix(line', "GSV"))
            => /\ pc' = "returned"
               /\ err' = NoError
               /\ data' = data
               /\ gsvTempSatellites' = gsvTempSatellites
               /\ expectedGSVParts' = expectedGSVParts
       /\ (pc' # "idle" /\ HasPrefix(line', "GSV"))
            => /\ data' = data
               /\ data'.satMap = EmptyMap]_vars

\* a satellites-in-view sentence has put a satellite into the accumulation
\* map while the fix record holds an earlier fix and an empty satellite map
C8_Witness ==
    /\ pc = "gsv_loop"
    /\ HasPrefix(line, "GSV")
    /\ DOMAIN gsvTempSatellites = {2}
    /\ data.fixType = "GPS Fix"
    /\ data.satellites = 8
    /\ data.satMap = EmptyMap

(***************************************************************************)
(* C9.  The time of day of a fix sentence of at least 10 fields: a token   *)
(* of fewer than 6 characters raises InvalidDataError; a token of 6 or     *)
(* more characters that is no valid time of day raises nothing, leaves the *)
(* timestamp as it was, and parsing goes on with the latitude (an empty    *)
(* latitude raises its error, the latitude of the test sentence is         *)
(* stored).                                                                *)
(***************************************************************************)
C9_TimeOfDayAsymmetry ==
    [][(CallStep /\ DataType(line') = "GGA" /\ Len(tokens') >= 10) =>
         LET t      == Tok(tokens', 1)
             lat    == Tok(tokens', 2)
             ns     == Tok(tokens', 3)
             hour   == ToInt(Mid(t, 0, 2)).val
             minute == ToInt(Mid(t, 2, 2)).val
             second == ToInt(Mid(t, 4, 2)).val
         IN  /\ Len(t) < 6
                  => /\ err' = InvalidDataError(MsgTime)
                     /\ data' = data
             /\ (Len(t) >= 6 /\ ~(hour \in 0..23 /\ minute \in 0..59 /\ second \in 0..59))
                  => /\ err'.what # MsgTime
                     /\ data'.timestamp = data.timestamp
                     /\ (lat = <<>> \/ ns = <<>>)
                          => err' = InvalidDataError(MsgEmpty)
                     /\ (lat = <<"4", "8", "0", "7", ".", "0", "3", "8">> /\ ns = <<"N">>)
                          => data'.latitude = 2887 * Scale + (38 * Scale) \div 1000]_vars

\* a sentence with hour 25 was parsed without error and the record still
\* holds the time of an earlier sentence
C9_Witness ==
    /\ ReturnedGGA
    /\ Field(1) = <<"2", "5", "0", "0", "0", "0">>
    /\ err = NoError
    /\ data.timestamp = [valid |-> TRUE, hour |-> 9, minute |-> 45, second |-> 0]
    /\ data.latitude = 2887 * Scale + (38 * Scale) \div 1000

(***************************************************************************)
(* C10.  parseGGA validates time, latitude, longitude, fix quality,        *)
(* satellite count, HDOP, altitude in this order and stops at the first    *)
(* failure: an empty latitude or longitude value or hemisphere raises      *)
(* InvalidDataError (the empty-value error, when the time token is long    *)
(* enough and the latitude is the empty one) and the fix type, satellite   *)
(* count, HDOP and altitude of the record keep their values; likewise a    *)
(* failure of a later step leaves the fields of the steps after it alone.  *)
(***************************************************************************)
C10_FirstFailureDecides ==
    [][(CallStep /\ DataType(line') = "GGA" /\ Len(tokens') >= 10) =>
         LET f(k) == Tok(tokens', k)
         IN  /\ (f(2) = <<>> \/ f(3) = <<>> \/ f(4) = <<>> \/ f(5) = <<>>)
                  => /\ err'.kind = "InvalidDataError"
                     /\ err'.what \in {MsgTime, MsgEmpty}
                     /\ data'.fixType = data.fixType
                     /\ data'.satellites = data.satellites
                     /\ data'.hdop = data.hdop
                     /\ data'.altitude = data.altitude
             /\ (Len(f(1)) >= 6 /\ (f(2) = <<>> \/ f(3) = <<>>))
                  => /\ err' = InvalidDataError(MsgEmpty)
                     /\ data'.latitude = data.latitude
                     /\ data'.longitude = data.longitude
             /\ err'.what = MsgFix
                  => /\ data'.fixType = data.fixType
                     /\ data'.satellites = data.satellites
             /\ err'.what \in {MsgFix, MsgSatellites}
                  => data'.hdop = data.hdop
             /\ err'.what \in {MsgFix, MsgSatellites, MsgHdop}
                  => data'.altitude = data.altitude]_vars

\* the sentence "$GPGGA,094500,,,,,0,00,99.9,,,,,,*48" was rejected for its
\* empty latitude and the record still holds the fix of an earlier sentence
C10_Witness ==
    /\ pc = "returned"
    /\ line = Join(GGANoFix)
    /\ err = InvalidDataError(MsgEmpty)
    /\ data.fixType = "GPS Fix"
    /\ data.satellites = 8
    /\ data.hdop = (9 * Scale) \div 10
    /\ data.altitude = 545 * Scale + (4 * Scale) \div 10

=============================================================================
